---- MODULE Spec2Model ----
(***************************************************************************)
(* Model of rtcMemory.h: a four-int record (rtcStore myData) held in RAM   *)
(* and copied to / from the ESP8266 RTC user memory at bucket              *)
(* RTCMEMORYSTART by system_rtc_mem_write / system_rtc_mem_read.           *)
(*                                                                         *)
(* The RTC memory survives deep sleep; RAM does not: on every boot the     *)
(* global myData is a statically (zero) initialised object.                *)
(***************************************************************************)
EXTENDS Integers, Sequences, FiniteSets, TLC

\* ---------------------------------------------------------------- bounds
MaxCount == 2     \* count values are 0..MaxCount
MaxPad   == 1     \* thing / dummy values are 0..MaxPad
MaxErr   == 3     \* errCode values are 0..MaxErr, setError arguments -1..MaxErr
MaxRun   == 2     \* longest setError sequence the run history follows

\* ------------------------------------------------------ program constants
ReadBytes == 8      \* third argument of system_rtc_mem_read in readData
SizeofInt == 4      \* sizeof(int) on the ESP8266: one 4-byte bucket

Fields == <<"count", "thing", "errCode", "dummy">>   \* rtcStore, declaration order

FieldNames == {Fields[i] : i \in 1..Len(Fields)}

SizeofMyData == Len(Fields) * SizeofInt              \* sizeof(myData)

\* byte offset of a field inside rtcStore
OffsetOf(f) == (CHOOSE i \in 1..Len(Fields) : Fields[i] = f) * SizeofInt - SizeofInt

CountVals == 0..MaxCount
PadVals   == 0..MaxPad
ErrVals   == 0..MaxErr
Deltas    == (0 - 1)..MaxErr

rtcStore == [count : CountVals, thing : PadVals, errCode : ErrVals, dummy : PadVals]

ZeroRec == [count |-> 0, thing |-> 0, errCode |-> 0, dummy |-> 0]

VARIABLES
    myData,   \* the global rtcStore myData (RAM)
    rtc,      \* the RTC user memory at RTCMEMORYSTART, seen as an rtcStore
    last,     \* the last call: [op, arg, ret, pre]
    fresh,    \* TRUE from a boot until the first call that is not a getter
    mon,      \* history: the last flush and what followed it
    run       \* history: the calls made since myData last matched a flush

vars == <<myData, rtc, last, fresh, mon, run>>

\* --------------------------------------------------- the vendor primitives

\* (variant: the destination is cleared before the copy)
system_rtc_mem_read_clearing(mem, dst, nbytes) ==
    [f \in FieldNames |->
        IF OffsetOf(f) + SizeofInt <= nbytes THEN mem[f] ELSE 0]

\* system_rtc_mem_read(RTCMEMORYSTART, &dst, nbytes): the first nbytes bytes
\* of dst are overwritten from the RTC memory, the rest of dst is untouched.
system_rtc_mem_read(mem, dst, nbytes) ==
    [f \in FieldNames |->
        IF OffsetOf(f) + SizeofInt <= nbytes THEN mem[f] ELSE dst[f]]

\* system_rtc_mem_write(RTCMEMORYSTART, &src, nbytes): the first nbytes bytes
\* of the RTC memory are overwritten from src, the rest is untouched.
system_rtc_mem_write(mem, src, nbytes) ==
    [f \in FieldNames |->
        IF OffsetOf(f) + SizeofInt <= nbytes THEN src[f] ELSE mem[f]]

\* -------------------------------------------------------------- the class
\* Each method maps the state s = [myData, rtc] to the state after the call.

readData(s) ==
    [s EXCEPT !.myData = system_rtc_mem_read(s.rtc, s.myData, ReadBytes)]

\* (variant: writes as many bytes as readData reads)
writeDataShort(s) ==
    [s EXCEPT !.rtc = system_rtc_mem_write(s.rtc, s.myData, ReadBytes)]

writeData(s) ==
    [s EXCEPT !.rtc = system_rtc_mem_write(s.rtc, s.myData, SizeofMyData)]

count(s) == s.myData.count

\* (variant: the increment is flushed)
incrementCountFlushing(s) ==
    writeData([s EXCEPT !.myData.count = s.myData.count + 1])

incrementCount(s) ==
    [s EXCEPT !.myData.count = s.myData.count + 1]

error(s) == s.myData.errCode

\* (variant: the argument is assigned, not added)
setErrorAssigning(s, e) ==
    [s EXCEPT !.myData.errCode = e]

\* (variant: the new error code is flushed)
setErrorFlushing(s, e) ==
    writeData([s EXCEPT !.myData.errCode = s.myData.errCode + e])

setError(s, e) ==
    [s EXCEPT !.myData.errCode = s.myData.errCode + e]

\* (variant: no flush)
setCountNoFlush(s, newValue) ==
    [s EXCEPT !.myData.count = newValue]

\* (variant: only the count bucket is flushed)
setCountOnlyCount(s, newValue) ==
    [s EXCEPT !.myData.count = newValue, !.rtc.count = newValue]

setCount(s, newValue) ==
    writeData([s EXCEPT !.myData.count = newValue])

\* (variant: the constructor that calls readData is in place, reading all)
BootRecordFromRtc(mem) == mem

\* The value of the global myData when the program starts: static storage,
\* no constructor (the one that called readData is commented out).
BootRecord(mem) == ZeroRec

\* ------------------------------------------------------------- histories
Cur == [myData |-> myData, rtc |-> rtc]

Idle == [phase |-> "idle", via |-> "none", v |-> 0, R |-> ZeroRec]

NoRun == [end |-> "none", nInc |-> 0, nErr |-> 0, sum |-> 0,
          cnt0 |-> 0, err0 |-> 0, rtc0 |-> ZeroRec]

Getters == {"count", "error"}

\* mon follows: flush (writeData or setCount), then optionally a wake from
\* deep sleep, then readData.  R is the in-process record that was flushed.
MonNext(op, a, s2) ==
    CASE op \in Getters -> mon
      [] op = "writeData" -> [phase |-> "stored", via |-> op, v |-> 0, R |-> myData]
      [] op = "setCount"  -> [phase |-> "stored", via |-> op, v |-> a, R |-> s2.myData]
      [] op = "boot" ->
            IF mon.phase = "stored" THEN [mon EXCEPT !.phase = "slept"] ELSE Idle
      [] op = "readData" ->
            IF mon.phase = "stored" THEN [mon EXCEPT !.phase = "reloaded"]
            ELSE IF mon.phase = "slept" THEN [mon EXCEPT !.phase = "woken"]
            ELSE Idle
      [] OTHER -> Idle

\* run follows a sequence of nInc incrementCount and nErr setError calls
\* (arguments adding up to sum) that started with count cnt0, errCode err0
\* and RTC memory rtc0, and the readData or setCount that ended it.
\*   - a sequence of more than MaxRun setError calls is not followed;
\*   - after readData only sequences without setError are still followed;
\*   - after setCount what the sequence started from is dropped save err0.
OpenRun ==
    IF run.end = "open" THEN run
    ELSE [end |-> "open", nInc |-> 0, nErr |-> 0, sum |-> 0,
          cnt0 |-> myData.count, err0 |-> myData.errCode, rtc0 |-> rtc]

RunNext(op, a) ==
    CASE op \in Getters -> run
      [] op = "incrementCount" -> [OpenRun EXCEPT !.nInc = @ + 1]
      [] op = "setError" ->
            IF OpenRun.nErr < MaxRun
            THEN [OpenRun EXCEPT !.nErr = @ + 1, !.sum = @ + a]
            ELSE NoRun
      [] op = "readData" ->
            IF OpenRun.nErr = 0
            THEN [OpenRun EXCEPT !.end = "readData"]
            ELSE [NoRun EXCEPT !.end = "readData", !.nErr = OpenRun.nErr]
      [] op = "setCount" ->
            [OpenRun EXCEPT !.end = "setCount", !.cnt0 = 0, !.rtc0 = ZeroRec]
      [] OTHER -> NoRun

\* last.pre is the state the call was made in, for the calls that do not
\* flush; for the others it is not recorded.
NoPre == [myData |-> ZeroRec, rtc |-> ZeroRec]

Flushers == {"writeData", "setCount"}

Step(s2, op, a, r) ==
    /\ myData' = s2.myData
    /\ rtc' = s2.rtc
    /\ last' = [op |-> op, arg |-> a, ret |-> r,
                pre |-> IF op \in Flushers THEN NoPre ELSE Cur]
    /\ fresh' = (fresh /\ op \in Getters)
    /\ mon' = MonNext(op, a, s2)
    /\ run' = RunNext(op, a)

\* ---------------------------------------------------------------- actions
CallReadData == Step(readData(Cur), "readData", 0, 0)

CallWriteData == Step(writeData(Cur), "writeData", 0, 0)

CallCount == Step(Cur, "count", 0, count(Cur))

CallIncrementCount ==
    /\ myData.count < MaxCount
    /\ Step(incrementCount(Cur), "incrementCount", 0, 0)

CallError == Step(Cur, "error", 0, error(Cur))

CallSetError ==
    \E e \in Deltas :
        /\ myData.errCode + e \in ErrVals
        /\ Step(setError(Cur, e), "setError", e, 0)

CallSetCount ==
    \E v \in CountVals : Step(setCount(Cur, v), "setCount", v, 0)

\* Deep sleep ends in a reset: RAM is initialised again, RTC memory is kept.
DeepSleepWake ==
    /\ myData' = BootRecord(rtc)
    /\ rtc' = rtc
    /\ last' = [op |-> "boot", arg |-> 0, ret |-> 0, pre |-> NoPre]
    /\ fresh' = TRUE
    /\ mon' = MonNext("boot", 0, Cur)
    /\ run' = NoRun

\* Power on: the RTC memory holds arbitrary values.
Init ==
    /\ rtc \in rtcStore
    /\ myData = BootRecord(rtc)
    /\ last = [op |-> "boot", arg |-> 0, ret |-> 0, pre |-> NoPre]
    /\ fresh = TRUE
    /\ mon = Idle
    /\ run = NoRun

Next ==
    \/ CallReadData
    \/ CallWriteData
    \/ CallCount
    \/ CallIncrementCount
    \/ CallError
    \/ CallSetError
    \/ CallSetCount
    \/ DeepSleepWake

Spec == Init /\ [][Next]_vars

TypeOK ==
    /\ myData \in rtcStore
    /\ rtc \in rtcStore
    /\ fresh \in BOOLEAN

\* ------------------------------------------------------------ properties
NonFlushing == {"readData", "count", "incrementCount", "error", "setError"}

\* C1: a record R flushed by writeData, then a wake from deep sleep (RAM
\* reset, RTC memory kept), then readData: the in-process record equals R in
\* all four fields, and error() returns R.errCode.
C1_PersistsAcrossSleep ==
    (mon.phase = "woken" /\ mon.via = "writeData")
        => (myData = mon.R /\ error(Cur) = mon.R.errCode)

\* C2: after readData every in-process field equals the corresponding field
\* of the RTC memory, whatever both held before.
C2_LoadCopiesWholeRecord ==
    last.op = "readData"
        => (myData = rtc /\ count(Cur) = rtc.count /\ error(Cur) = rtc.errCode)

\* C3: writeData immediately followed by readData leaves the in-process
\* record equal to the record R it was before the writeData.
C3_RoundTrip ==
    (mon.phase = "reloaded" /\ mon.via = "writeData") => myData = mon.R

C3_Witness ==
    /\ mon.phase = "reloaded" /\ mon.via = "writeData"
    /\ last.op = "readData"
    /\ mon.R.count # 0 /\ mon.R.thing # 0 /\ mon.R.errCode # 0
    /\ myData = mon.R

\* C4: after setCount(v) the persisted count is v, and after a wake from
\* deep sleep followed by readData, count() returns v.
C4_SetCountFlush ==
    /\ last.op = "setCount" => rtc.count = last.arg
    /\ (mon.phase = "woken" /\ mon.via = "setCount")
          => /\ count(Cur) = mon.v
             /\ last.op = "count" => last.ret = mon.v

C4_Witness ==
    /\ mon.phase = "woken" /\ mon.via = "setCount"
    /\ last.op = "count" /\ last.ret = mon.v
    /\ mon.v = MaxCount

\* C5: N incrementCount calls with no writeData / setCount leave the RTC
\* memory as it was, and a readData after them sets the in-process count
\* back to the persisted count, which count() then returns.
C5_UnflushedIncrementsLost ==
    /\ (run.nErr = 0 /\ run.end \in {"open", "readData"}) => rtc = run.rtc0
    /\ (run.nErr = 0 /\ run.end = "readData")
          => /\ myData.count = run.rtc0.count
             /\ last.op = "count" => last.ret = run.rtc0.count

C5_Witness ==
    /\ run.nErr = 0 /\ run.end = "readData" /\ run.nInc >= 2
    /\ last.op = "count" /\ last.ret = run.rtc0.count
    /\ last.ret # run.cnt0 + run.nInc

\* C6: after setError(d1); ...; setError(dn) with no other call in between
\* save getters, error() is the errCode before the sequence plus d1+...+dn.
C6_ErrorAccumulates ==
    (run.end = "open" /\ run.nInc = 0)
        => /\ error(Cur) = run.err0 + run.sum
           /\ last.op = "error" => last.ret = run.err0 + run.sum

\* from errCode 0: setError(3); setError(-1) and errCode is 2
C6_Witness ==
    /\ run.end = "open" /\ run.nInc = 0 /\ run.nErr = 2 /\ run.err0 = 0
    /\ last.op = "setError" /\ last.arg = 0 - 1 /\ run.sum - last.arg = 3
    /\ myData.errCode = 2

\* C7: after writeData the RTC memory equals the in-process record in all
\* four fields and the in-process record is what it was before the call.
C7_StoreWritesFullRecord ==
    last.op = "writeData" => (rtc = myData /\ myData = mon.R)

C7_Witness ==
    /\ last.op = "writeData"
    /\ myData.count # 0 /\ myData.thing # 0 /\ myData.errCode # 0
    /\ rtc = myData

\* C8: readData, count, incrementCount, error and setError leave the RTC
\* memory as it was; count and error leave the in-process record as it was.
C8_FlushOnlyOnDemand ==
    /\ last.op \in NonFlushing => rtc = last.pre.rtc
    /\ last.op \in Getters => myData = last.pre.myData

C8_Witness ==
    /\ last.op = "setError" /\ last.arg # 0
    /\ rtc = last.pre.rtc
    /\ myData.errCode # rtc.errCode /\ myData.count # rtc.count

\* C9 (as stated): from a boot until the first call that is not a getter,
\* the in-process record holds what the RTC memory holds, and count() and
\* error() return the persisted count and errCode.
C9_BootHoldsRtcContents ==
    fresh => /\ myData = rtc
             /\ last.op = "count" => last.ret = rtc.count
             /\ last.op = "error" => last.ret = rtc.errCode

\* C9 (amended): from a boot until the first call that is not a getter, the
\* in-process record is zero in all four fields whatever the RTC memory
\* holds, and count() and error() return 0.
C9_BootRecordIsZero ==
    fresh => /\ myData = ZeroRec
             /\ last.op \in Getters => last.ret = 0

C9_Witness ==
    /\ fresh /\ last.op = "error" /\ last.ret = 0
    /\ rtc.count # 0 /\ rtc.errCode # 0

\* C10: setCount(v) after unflushed setError / incrementCount calls flushes
\* the whole record: the RTC memory equals the in-process record in all four
\* fields, its errCode includes the pending setError arguments.
C10_SetCountFlushesAll ==
    (last.op = "setCount" /\ run.end = "setCount")
        => /\ rtc = myData
           /\ rtc.count = last.arg
           /\ rtc.errCode = run.err0 + run.sum

C10_Witness ==
    /\ last.op = "setCount" /\ run.end = "setCount"
    /\ run.nErr >= 1 /\ run.nInc >= 1 /\ run.sum # 0
    /\ rtc = myData /\ rtc.errCode = run.err0 + run.sum

====
